---- MODULE Spec2Model ----
(***************************************************************************)
(* Model of the model-conversion scripts (scripts/generate_llama_coreml.py, *)
(* scripts/generate_tts_coreml.py, scripts/generate_voice_model.py) and of  *)
(* the /tts handler of PCPOScompanion/PythonScripts/tts_server.py.          *)
(*                                                                         *)
(* One behaviour of Spec is one invocation of one conversion script.  The   *)
(* library calls (from_pretrained, torch.jit.trace, ct.convert,             *)
(* mlmodel.save) are the environment: each either returns or raises, and    *)
(* the model keeps what the script does with either outcome.                *)
(***************************************************************************)
EXTENDS Integers, Sequences, FiniteSets

VARIABLES
    script,     \* which entry point was invoked
    pc,         \* position of the script: the next statement group to run
    model_id,   \* the script's local variable model_id
    model,      \* identity of the loaded model object, "none" before a load
    modelDim,   \* speaker-embedding width the loaded model computes with (0: n/a)
    wrapper,    \* the wrapper instance handed to the tracer
    trail,      \* history: library stages executed, in order
    loads,      \* history: model ids passed to from_pretrained / get_model
    excs,       \* history: exceptions raised, in order, with the stage
    log,        \* what the script wrote to stdout / stderr, in order
    disk,       \* files present at output paths
    exit        \* process outcome: "running", "0" or "1" (uncaught exception)

vars == <<script, pc, model_id, model, modelDim, wrapper, trail, loads, excs,
          log, disk, exit>>

\* The speech service (tts_server.py).
VARIABLES
    srv,        \* "init" (before load_model), "serving" or "exited"
    tts,        \* the global tts: "none" or the loaded model
    files,      \* speaker reference paths that exist on disk
    req,        \* body of the last /tts request handled
    resp,       \* response to it
    synth,      \* tts_to_file for it: "not_called", "ok" or "raised"
    temps,      \* temporary wav files created so far
    handled     \* number of /tts requests handled

svars == <<srv, tts, files, req, resp, synth, temps, handled>>

allvars == <<vars, svars>>

----------------------------------------------------------------------------
(* Exception messages are character sequences, so that the substring test   *)
(* of convert_llama is computed rather than assumed.                        *)

Lower(c) ==
    CASE c = "G" -> "g"
      [] c = "A" -> "a"
      [] c = "T" -> "t"
      [] c = "E" -> "e"
      [] c = "D" -> "d"
      [] OTHER -> c

LowerStr(s) == [i \in 1..Len(s) |-> Lower(s[i])]

Contains(s, p) ==
    \E i \in 1..(Len(s) - Len(p) + 1) : SubSeq(s, i, i + Len(p) - 1) = p

S403 == <<"4", "0", "3">>
SGated == <<"g", "a", "t", "e", "d">>

\* generate_llama_coreml.py:16
IsAccessDenied(e) == Contains(e.msg, S403) \/ Contains(LowerStr(e.msg), SGated)

\* Messages the hub client raises for a gated repository without entitlement.
AccessDeniedMsgs ==
    { <<"4", "0", "3">>,
      <<"G", "a", "t", "e", "d">>,
      <<"x", "g", "a", "t", "e", "d">> }

\* Messages of failures that are not authorization failures: unreadable
\* weights, a timeout after 4030 ms, a cache directory named "ungated", ...
LoadErrorMsgs ==
    { <<"d", "i", "s", "k">>,
      <<"4", "0", "4">>,
      <<"g", "a", "t", "e">>,
      <<"4", "0", "3", "0">>,
      <<"u", "n", "G", "A", "T", "E", "D">> }

LoadFailures ==
    [kind : {"AccessDenied"}, msg : AccessDeniedMsgs]
        \cup [kind : {"LoadError"}, msg : LoadErrorMsgs]

----------------------------------------------------------------------------
Scripts == {"llama", "tts", "voice"}

PrimaryId == "meta-llama/Llama-3.2-1B-Instruct"
FallbackId == "TinyLlama/TinyLlama-1.1B-Chat-v1.0"
TtsId == "microsoft/speecht5_tts"
VoiceId == "WAV2VEC2_ASR_BASE_960H"

InitialModelId(s) ==
    CASE s = "llama" -> PrimaryId
      [] s = "tts" -> TtsId
      [] s = "voice" -> VoiceId

OutputPath(s) ==
    CASE s = "llama" -> "Llama3_1B.mlpackage"
      [] s = "tts" -> "SpeechT5_Acoustic.mlpackage"
      [] s = "voice" -> "SpeakerEncoder.mlpackage"

\* The model name each script's final report carries.
ReportedModel(s) ==
    CASE s = "llama" -> PrimaryId
      [] s = "tts" -> TtsId
      [] s = "voice" -> VoiceId

\* The wrapper classes and the model entry point their forward() calls.
WrapperCalls(cls) ==
    CASE cls = "LlamaWrapper" -> "forward"
      [] cls = "AcousticWrapper" -> "generate_speech"
      [] cls = "TransformerWrapper" -> "forward"
      [] cls = "ModelWrapper" -> "forward"
      [] OTHER -> "none"

\* The wrapper class convert_tts instantiates (line 49); the script also
\* defines AcousticWrapper, which goes through generate_speech.
TtsWrapperClassAcoustic == "AcousticWrapper"
TtsWrapperClass == "TransformerWrapper"

WrapperClass(s) ==
    CASE s = "llama" -> "LlamaWrapper"
      [] s = "tts" -> TtsWrapperClass
      [] s = "voice" -> "ModelWrapper"

NoWrapper == [cls |-> "none", model |-> "none"]

\* Declared and sample width of the speaker_embeddings input.
SpeakerDim == 512
DummySpeakerDim == 512
\* Widths a loaded SpeechT5 checkpoint may compute with (its configuration).
ModelDims == {512, 256}

----------------------------------------------------------------------------
\* print(...): one line of output, tagged, with the name it mentions.
Line(tag, about) == [tag |-> tag, about |-> about]
Say(lines) == log' = log \o lines

Ran(stage) == trail' = Append(trail, stage)
Raised(stage, e) ==
    excs' = Append(excs, [stage |-> stage, kind |-> e.kind, msg |-> e.msg])

\* Exceptions of the later stages carry no message the scripts inspect.
TraceError == [kind |-> "TraceError", msg |-> <<>>]
ConversionError == [kind |-> "ConversionError", msg |-> <<>>]
SaveError == [kind |-> "IOError", msg |-> <<>>]

NoResp == [kind |-> "none", status |-> 0, error |-> ""]

\* The speech service is not running beside a conversion script.
ServerIdle ==
    /\ srv = "exited" /\ tts = "none" /\ files = {} /\ req = <<>>
    /\ resp = NoResp /\ synth = "not_called" /\ temps = 0 /\ handled = 0

Init ==
    /\ script \in Scripts
    /\ pc = "load"
    /\ model_id = InitialModelId(script)
    /\ model = "none"
    /\ modelDim = 0
    /\ wrapper = NoWrapper
    /\ trail = <<>>
    /\ loads = <<>>
    /\ excs = <<>>
    /\ log = <<>>
    /\ disk = {}
    /\ exit = "running"
    /\ ServerIdle

\* What mlmodel.save leaves at the path when it raises: nothing, or the part
\* of the bundle directory written before the error.
Package(s) == [path |-> OutputPath(s), state |-> "package"]
Partial(s) == [path |-> OutputPath(s), state |-> "partial"]
FailedSaveLeaves(s) == {disk, disk \cup {Partial(s)}}

\* An exception nobody catches: the interpreter prints a traceback and the
\* process ends with status 1.
Uncaught(stage, e, lines) ==
    /\ Raised(stage, e)
    /\ Say(lines \o <<Line("traceback", stage)>>)
    /\ pc' = "done"
    /\ exit' = "1"

\* The function returns and the script ends normally.
Return == pc' = "done" /\ exit' = "0"

----------------------------------------------------------------------------
(* scripts/generate_llama_coreml.py                                         *)

LlamaLoadPrimary ==
    /\ script = "llama" /\ pc = "load"
    /\ Ran("load")
    /\ loads' = Append(loads, model_id)
    /\ \/ /\ model' = model_id
          /\ pc' = "wrap"
          /\ Say(<<Line("loading", model_id)>>)
          /\ UNCHANGED <<model_id, excs, exit>>
       \/ \E e \in LoadFailures :
            /\ Raised("load", e)
            /\ IF IsAccessDenied(e)
               THEN /\ Say(<<Line("loading", model_id),
                             Line("error_loading", model_id),
                             Line("access_denied", model_id),
                             Line("falling_back", FallbackId)>>)
                    /\ model_id' = FallbackId
                    /\ pc' = "fallback_load"
                    /\ UNCHANGED exit
               ELSE /\ Say(<<Line("loading", model_id),
                             Line("error_loading", model_id)>>)
                    /\ Return
                    /\ UNCHANGED model_id
            /\ UNCHANGED model
    /\ UNCHANGED <<svars, script, modelDim, wrapper, disk>>

\* A fallback that is attempted again when it fails.
LlamaLoadFallbackRetrying ==
    /\ script = "llama" /\ pc = "fallback_load"
    /\ Ran("load")
    /\ loads' = Append(loads, model_id)
    /\ \/ /\ model' = model_id
          /\ pc' = "wrap"
          /\ Say(<<Line("fallback_ok", model_id)>>)
          /\ UNCHANGED <<excs, exit>>
       \/ \E e \in LoadFailures :
            /\ Len(loads) < 3
            /\ Raised("load", e)
            /\ Say(<<Line("fallback_failed", model_id)>>)
            /\ UNCHANGED <<pc, exit, model>>
    /\ UNCHANGED <<svars, script, model_id, modelDim, wrapper, disk>>

LlamaLoadFallback ==
    /\ script = "llama" /\ pc = "fallback_load"
    /\ Ran("load")
    /\ loads' = Append(loads, model_id)
    /\ \/ /\ model' = model_id
          /\ pc' = "wrap"
          /\ Say(<<Line("fallback_ok", model_id)>>)
          /\ UNCHANGED <<excs, exit>>
       \/ \E e \in LoadFailures :
            /\ Raised("load", e)
            /\ Say(<<Line("fallback_failed", model_id)>>)
            /\ Return
            /\ UNCHANGED model
    /\ UNCHANGED <<svars, script, model_id, modelDim, wrapper, disk>>

LlamaWrap ==
    /\ script = "llama" /\ pc = "wrap"
    /\ Ran("wrap")
    /\ wrapper' = [cls |-> WrapperClass(script), model |-> model]
    /\ Say(<<Line("wrapper", "")>>)
    /\ pc' = "trace"
    /\ UNCHANGED <<svars, script, model_id, model, modelDim, loads, excs, disk, exit>>

LlamaTrace ==
    /\ script = "llama" /\ pc = "trace"
    /\ Ran("trace")
    /\ \/ /\ Say(<<Line("tracing", "")>>)
          /\ pc' = "convert"
          /\ UNCHANGED <<excs, exit>>
       \/ Uncaught("trace", TraceError, <<Line("tracing", "")>>)
    /\ UNCHANGED <<svars, script, model_id, model, modelDim, wrapper, loads, disk>>

LlamaConvert ==
    /\ script = "llama" /\ pc = "convert"
    /\ Ran("convert")
    /\ \/ /\ Say(<<Line("converting", "")>>)
          /\ pc' = "save"
          /\ UNCHANGED <<excs, exit>>
       \/ Uncaught("convert", ConversionError, <<Line("converting", "")>>)
    /\ UNCHANGED <<svars, script, model_id, model, modelDim, wrapper, loads, disk>>

LlamaSave ==
    /\ script = "llama" /\ pc = "save"
    /\ Ran("save")
    /\ \/ /\ disk' = disk \cup {Package(script)}
          /\ Say(<<Line("saved", ReportedModel(script))>>)
          /\ Return
          /\ UNCHANGED excs
       \/ /\ disk' \in FailedSaveLeaves(script)
          /\ Uncaught("save", SaveError, <<>>)
    /\ UNCHANGED <<svars, script, model_id, model, modelDim, wrapper, loads>>

----------------------------------------------------------------------------
(* scripts/generate_tts_coreml.py                                           *)

TtsLoad ==
    /\ script = "tts" /\ pc = "load"
    /\ Ran("load")
    /\ loads' = Append(loads, model_id)
    /\ \/ /\ model' = model_id
          /\ modelDim' \in ModelDims
          /\ pc' = "wrap"
          /\ Say(<<Line("loading", model_id)>>)
          /\ UNCHANGED <<excs, exit>>
       \/ \E e \in LoadFailures :
            /\ Raised("load", e)
            /\ Say(<<Line("loading", model_id), Line("error_loading", model_id)>>)
            /\ Return
            /\ UNCHANGED <<model, modelDim>>
    /\ UNCHANGED <<svars, script, model_id, wrapper, disk>>

TtsWrap ==
    /\ script = "tts" /\ pc = "wrap"
    /\ Ran("wrap")
    /\ wrapper' = [cls |-> WrapperClass(script), model |-> model]
    /\ Say(<<Line("wrapper", "")>>)
    /\ pc' = "trace"
    /\ UNCHANGED <<svars, script, model_id, model, modelDim, loads, excs, disk, exit>>

\* A handler that carries on to the save after reporting the failure.
TtsExceptContinues(stage, e, lines) ==
    /\ Raised(stage, e)
    /\ Say(lines \o <<Line("tracing_failed", stage),
                      Line("simulated_success", "")>>)
    /\ pc' = IF stage = "save" THEN "done" ELSE "save"
    /\ exit' = IF stage = "save" THEN "0" ELSE exit

\* The except clause around trace / convert / save (lines 73-76).
TtsExcept(stage, e, lines) ==
    /\ Raised(stage, e)
    /\ Say(lines \o <<Line("tracing_failed", stage),
                      Line("simulated_success", "")>>)
    /\ Return

\* The sample input runs through the wrapper only if its width is the one
\* the loaded model computes with.
TtsSampleRuns == modelDim = DummySpeakerDim

TtsTrace ==
    /\ script = "tts" /\ pc = "trace"
    /\ Ran("trace")
    /\ \/ /\ TtsSampleRuns
          /\ Say(<<Line("tracing", "")>>)
          /\ pc' = "convert"
          /\ UNCHANGED <<excs, exit>>
       \/ TtsExcept("trace", TraceError, <<Line("tracing", "")>>)
    /\ UNCHANGED <<svars, script, model_id, model, modelDim, wrapper, loads, disk>>

TtsConvert ==
    /\ script = "tts" /\ pc = "convert"
    /\ Ran("convert")
    /\ \/ /\ Say(<<Line("converting", "")>>)
          /\ pc' = "save"
          /\ UNCHANGED <<excs, exit>>
       \/ TtsExcept("convert", ConversionError, <<Line("converting", "")>>)
    /\ UNCHANGED <<svars, script, model_id, model, modelDim, wrapper, loads, disk>>

TtsSave ==
    /\ script = "tts" /\ pc = "save"
    /\ Ran("save")
    /\ \/ /\ disk' = disk \cup {Package(script)}
          /\ Say(<<Line("saved", ReportedModel(script))>>)
          /\ Return
          /\ UNCHANGED excs
       \/ /\ disk' \in FailedSaveLeaves(script)
          /\ TtsExcept("save", SaveError, <<>>)
    /\ UNCHANGED <<svars, script, model_id, model, modelDim, wrapper, loads>>

----------------------------------------------------------------------------
(* scripts/generate_voice_model.py                                          *)

\* The except clause of the __main__ block (lines 55-57).
VoiceExcept(stage, e, lines) ==
    /\ Raised(stage, e)
    /\ Say(lines \o <<Line("error", stage), Line("tip", "")>>)
    /\ Return

VoiceLoad ==
    /\ script = "voice" /\ pc = "load"
    /\ Ran("load")
    /\ loads' = Append(loads, model_id)
    /\ \/ /\ model' = model_id
          /\ pc' = "wrap"
          /\ Say(<<Line("loading", model_id)>>)
          /\ UNCHANGED <<excs, exit>>
       \/ \E e \in LoadFailures :
            /\ VoiceExcept("load", e, <<Line("loading", model_id)>>)
            /\ UNCHANGED model
    /\ UNCHANGED <<svars, script, model_id, modelDim, wrapper, disk>>

VoiceWrap ==
    /\ script = "voice" /\ pc = "wrap"
    /\ Ran("wrap")
    /\ wrapper' = [cls |-> WrapperClass(script), model |-> model]
    /\ pc' = "trace"
    /\ UNCHANGED <<svars, script, model_id, model, modelDim, loads, excs, log, disk, exit>>

VoiceTrace ==
    /\ script = "voice" /\ pc = "trace"
    /\ Ran("trace")
    /\ \/ /\ Say(<<Line("tracing", "")>>)
          /\ pc' = "convert"
          /\ UNCHANGED <<excs, exit>>
       \/ VoiceExcept("trace", TraceError, <<Line("tracing", "")>>)
    /\ UNCHANGED <<svars, script, model_id, model, modelDim, wrapper, loads, disk>>

VoiceConvert ==
    /\ script = "voice" /\ pc = "convert"
    /\ Ran("convert")
    /\ \/ /\ Say(<<Line("converting", "")>>)
          /\ pc' = "save"
          /\ UNCHANGED <<excs, exit>>
       \/ VoiceExcept("convert", ConversionError, <<Line("converting", "")>>)
    /\ UNCHANGED <<svars, script, model_id, model, modelDim, wrapper, loads, disk>>

VoiceSave ==
    /\ script = "voice" /\ pc = "save"
    /\ Ran("save")
    /\ \/ /\ disk' = disk \cup {Package(script)}
          /\ Say(<<Line("saved", ReportedModel(script))>>)
          /\ Return
          /\ UNCHANGED excs
       \/ /\ disk' \in FailedSaveLeaves(script)
          /\ VoiceExcept("save", SaveError, <<>>)
    /\ UNCHANGED <<svars, script, model_id, model, modelDim, wrapper, loads>>

----------------------------------------------------------------------------
(* PCPOScompanion/PythonScripts/tts_server.py                               *)

MaxRequests == 2

None == "<None>"
DefaultSpeaker == "reference_audio/pcpos_ref.wav"
Paths == {DefaultSpeaker, "voice.wav"}

\* JSON bodies: objects with any subset of the three keys.
Values(k) ==
    CASE k = "text" -> {"", "hello"}
      [] k = "speaker_wav" -> Paths
      [] k = "language" -> {"fr"}
Keys == {"text", "speaker_wav", "language"}
Requests == UNION {[ks -> UNION {Values(k) : k \in ks}] : ks \in SUBSET Keys}
WellTyped(d) == \A k \in DOMAIN d : d[k] \in Values(k)

\* dict.get(key, default)
Get(d, k, default) == IF k \in DOMAIN d THEN d[k] ELSE default
\* Python truthiness of None and of strings
Falsy(v) == v = None \/ v = ""

ErrorResp(msg, status) == [kind |-> "error", status |-> status, error |-> msg]
AudioResp == [kind |-> "audio", status |-> 200, error |-> ""]

\* No conversion script runs beside the service.
ScriptIdle ==
    /\ script = "none" /\ pc = "done" /\ model_id = "none" /\ model = "none"
    /\ modelDim = 0 /\ wrapper = NoWrapper /\ trail = <<>> /\ loads = <<>>
    /\ excs = <<>> /\ log = <<>> /\ disk = {} /\ exit = "0"

ServerInit ==
    /\ srv \in {"init", "serving"}
    /\ tts = "none"
    /\ files \in SUBSET Paths
    /\ req = <<>>
    /\ resp = NoResp
    /\ synth = "not_called"
    /\ temps = 0
    /\ handled = 0
    /\ ScriptIdle

load_model ==
    /\ srv = "init"
    /\ \/ tts' = "xtts_v2" /\ srv' = "serving"
       \/ tts' = tts /\ srv' = "exited"
    /\ UNCHANGED <<vars, files, req, resp, synth, temps, handled>>

\* The handler without the os.path.exists test of the speaker reference.
generate_speechUnchecked(data) ==
    /\ srv = "serving"
    /\ handled < MaxRequests
    /\ handled' = handled + 1
    /\ req' = data
    /\ IF tts = "none"
       THEN /\ resp' = ErrorResp("Model not loaded", 503)
            /\ synth' = "not_called"
            /\ UNCHANGED temps
       ELSE LET text == Get(data, "text", None)
                speaker_wav == Get(data, "speaker_wav", DefaultSpeaker)
            IN  IF Falsy(text)
                THEN /\ resp' = ErrorResp("Missing 'text' parameter", 400)
                     /\ synth' = "not_called"
                     /\ UNCHANGED temps
                ELSE /\ temps' = temps + 1
                     /\ \/ synth' = "ok" /\ resp' = AudioResp
                        \/ synth' = "raised" /\ resp' = ErrorResp("exception", 500)
    /\ UNCHANGED <<vars, srv, tts, files>>

generate_speech(data) ==
    /\ srv = "serving"
    /\ handled < MaxRequests
    /\ handled' = handled + 1
    /\ req' = data
    /\ IF tts = "none"
       THEN /\ resp' = ErrorResp("Model not loaded", 503)
            /\ synth' = "not_called"
            /\ UNCHANGED temps
       ELSE LET text == Get(data, "text", None)
                speaker_wav == Get(data, "speaker_wav", DefaultSpeaker)
            IN  IF Falsy(text)
                THEN /\ resp' = ErrorResp("Missing 'text' parameter", 400)
                     /\ synth' = "not_called"
                     /\ UNCHANGED temps
                ELSE /\ temps' = temps + 1
                     /\ IF speaker_wav \notin files
                        THEN /\ resp' = ErrorResp("Speaker reference file not found", 400)
                             /\ synth' = "not_called"
                        ELSE \/ synth' = "ok" /\ resp' = AudioResp
                             \/ synth' = "raised" /\ resp' = ErrorResp("exception", 500)
    /\ UNCHANGED <<vars, srv, tts, files>>

ServerNext ==
    \/ load_model
    \/ \E data \in {d \in Requests : WellTyped(d)} : generate_speech(data)

----------------------------------------------------------------------------
Next ==
    \/ LlamaLoadPrimary \/ LlamaLoadFallback \/ LlamaWrap
    \/ LlamaTrace \/ LlamaConvert \/ LlamaSave
    \/ TtsLoad \/ TtsWrap \/ TtsTrace \/ TtsConvert \/ TtsSave
    \/ VoiceLoad \/ VoiceWrap \/ VoiceTrace \/ VoiceConvert \/ VoiceSave

Spec == Init /\ [][Next]_allvars

SpecServer == ServerInit /\ [][ServerNext]_allvars

----------------------------------------------------------------------------
(* Properties                                                               *)

Count(seq, x) == Cardinality({i \in 1..Len(seq) : seq[i] = x})
Has(seq, x) == \E i \in 1..Len(seq) : seq[i] = x
Said(tag) == \E i \in 1..Len(log) : log[i].tag = tag
FailedAt(stage) == \E i \in 1..Len(excs) : excs[i].stage = stage
PrimaryLoadFailed == Len(excs) >= 1 /\ excs[1].stage = "load"
PackageAt(s) == Package(s) \in disk

\* C1: in convert_llama an access-denied failure of the primary load is
\* followed by exactly one load attempt of the fallback and never a second;
\* when it succeeds the fallback model is the one wrapped and traced and the
\* job goes on to tracing; when it fails the job ends with no further load.
C1_FallbackOnce ==
    /\ [](script = "llama" =>
            /\ Count(loads, FallbackId) <= 1
            /\ (PrimaryLoadFailed /\ excs[1].kind = "AccessDenied"
                  /\ pc # "fallback_load")
                 => loads = <<PrimaryId, FallbackId>>
            /\ (Len(loads) = 2 /\ Len(excs) = 1 /\ pc # "fallback_load")
                 => /\ model = FallbackId /\ model_id = FallbackId
                    /\ pc # "wrap" => wrapper.model = FallbackId
                    /\ pc \notin {"wrap", "trace"} => Has(trail, "trace")
            /\ (Len(excs) >= 2 /\ excs[2].stage = "load")
                 => /\ pc = "done"
                    /\ trail = <<"load", "load">>
                    /\ loads = <<PrimaryId, FallbackId>>)
    /\ [][(script = "llama" /\ pc = "fallback_load" /\ model' = FallbackId)
            => pc' = "wrap"]_allvars
    /\ [][(script = "llama" /\ pc = "wrap")
            => (pc' = "trace" /\ wrapper'.model = model)]_allvars

C1_Witness ==
    /\ script = "llama" /\ PrimaryLoadFailed /\ excs[1].kind = "AccessDenied"
    /\ loads = <<PrimaryId, FallbackId>>
    /\ wrapper.model = FallbackId
    /\ Has(trail, "trace")

\* C2: a primary load failure that is not an authorization failure aborts
\* the job whatever its message: no fallback load, and wrapping, tracing,
\* converting and saving are never entered.
C2_OtherLoadFailureAborts ==
    (PrimaryLoadFailed /\ excs[1].kind # "AccessDenied")
        => /\ Len(loads) = 1
           /\ trail = <<"load">>
           /\ pc = "done"

JobSucceeded == pc = "done" /\ excs = <<>>
JobFailed == pc = "done" /\ excs # <<>>

\* C3: a job that ends successfully has produced exactly one package at its
\* output path; a job that ends in failure has left nothing at that path,
\* neither a package nor partial files.
C3_PackageIffSuccess ==
    /\ JobSucceeded => disk = {Package(script)}
    /\ JobFailed => disk = {}

Rank(stage) ==
    CASE stage = "load" -> 1
      [] stage = "wrap" -> 2
      [] stage = "trace" -> 3
      [] stage = "convert" -> 4
      [] stage = "save" -> 5
\* The ExportJob state a script is in while it runs a stage; persisting the
\* package is the end of converting.
JobState(stage) ==
    CASE stage = "load" -> "resolving"
      [] stage = "wrap" -> "wrapping"
      [] stage = "trace" -> "tracing"
      [] stage = "convert" -> "converting"
      [] stage = "save" -> "converting"

\* C4: the stages run only in the order load, wrap, trace, convert, save,
\* none is skipped, none but the load runs twice and the load at most
\* twice; a package exists only after convert and save both completed; a
\* failure comes from a stage that ran; nothing runs after the job ended.
C4_StageOrder ==
    /\ [](script \in Scripts =>
            /\ Len(trail) >= 1 => trail[1] = "load"
            /\ \A i \in 1..(Len(trail) - 1) :
                 \/ Rank(trail[i + 1]) = Rank(trail[i]) + 1
                 \/ trail[i] = "load" /\ trail[i + 1] = "load"
            /\ Count(trail, "load") <= 2
            /\ \A st \in {"wrap", "trace", "convert", "save"} : Count(trail, st) <= 1
            /\ PackageAt(script)
                 => /\ Len(trail) >= 2
                    /\ trail[Len(trail)] = "save"
                    /\ trail[Len(trail) - 1] = "convert"
                    /\ ~FailedAt("convert") /\ ~FailedAt("save")
                    /\ pc = "done"
            /\ \A i \in 1..Len(excs) :
                 /\ Has(trail, excs[i].stage)
                 /\ JobState(excs[i].stage)
                      \in {"resolving", "wrapping", "tracing", "converting"}
            /\ (excs # <<>> /\ pc # "fallback_load")
                 => (pc = "done" \/ (script = "llama" /\ Len(loads) = 2)))
    /\ [][pc = "done" => UNCHANGED vars]_allvars

C4_Witness ==
    /\ script = "llama"
    /\ trail = <<"load", "load", "wrap", "trace", "convert", "save">>
    /\ PackageAt(script)

\* C5: in every conversion script a failure of the tracing stage is caught
\* and reported as a failed job; it never leaves the entry point uncaught.
C5_TraceFailureCaught ==
    (pc = "done" /\ FailedAt("trace"))
        => /\ exit # "1"
           /\ ~Said("traceback")
           /\ Said("tracing_failed") \/ Said("error")

Diagnosed ==
    \/ Said("error_loading") \/ Said("fallback_failed") \/ Said("tracing_failed")
    \/ Said("error") \/ Said("traceback")

\* C6: every invocation ends either with a package on disk and a success
\* report, or with a diagnostic and a failure process outcome; a run in which
\* a stage failed never ends with a success outcome nor without a diagnostic.
C6_TwoOutcomes ==
    pc = "done"
        => \/ /\ excs = <<>>
              /\ PackageAt(script) /\ Said("saved") /\ exit = "0"
           \/ /\ Diagnosed /\ exit # "0"
              /\ ~Said("saved") /\ ~Said("simulated_success")

\* C8: the wrapper handed to the tracer exposes a single forward computation
\* and never calls the generation loop; AcousticWrapper is never traced.
C8_TracedWrapperIsForward ==
    Has(trail, "trace")
        => /\ WrapperCalls(wrapper.cls) = "forward"
           /\ wrapper.cls # "AcousticWrapper"

C8_Witness ==
    /\ script = "tts" /\ Has(trail, "trace") /\ ~FailedAt("trace")
    /\ wrapper.cls = "TransformerWrapper"

\* C9: in convert_llama the model the saved-package report names is the
\* model that was loaded and traced: the fallback when it was substituted.
C9_ReportNamesLoadedModel ==
    (script = "llama" /\ Said("saved"))
        => \A i \in 1..Len(log) : log[i].tag = "saved" => log[i].about = model

ShapesConsistent ==
    script = "tts" => (modelDim = SpeakerDim /\ DummySpeakerDim = SpeakerDim)

\* C10: a job whose declared fixed axis differs from the width the wrapper
\* computes with fails with a configuration error before tracing: tracing
\* and converting never run on it.
C10_MismatchCaughtBeforeTrace ==
    (model # "none" /\ ~ShapesConsistent)
        => ~Has(trail, "trace") /\ ~Has(trail, "convert")

ReqText == Get(req, "text", None)
ReqSpeaker == Get(req, "speaker_wav", DefaultSpeaker)
ReqRejectable == tts = "none" \/ Falsy(ReqText) \/ ReqSpeaker \notin files

\* C7: a /tts request with no model loaded, a missing or empty text, or a
\* speaker_wav that does not exist gets an error response with a non-success
\* status and never reaches tts_to_file; audio is returned only when all
\* three conditions pass and synthesis succeeded.
C7_TtsValidation ==
    handled > 0
        => /\ ReqRejectable
                => /\ resp.kind = "error" /\ resp.status >= 400
                   /\ synth = "not_called"
           /\ resp.kind = "audio" => (~ReqRejectable /\ synth = "ok")

C7_Witness ==
    /\ handled > 0 /\ tts # "none" /\ ~Falsy(ReqText)
    /\ "speaker_wav" \in DOMAIN req /\ ReqSpeaker \notin files
    /\ resp.kind = "error" /\ synth = "not_called"

====
